---- MODULE Spec2Model ----
(***************************************************************************)
(* Batch generation orchestrator (DatasetGenerator) and output ledger      *)
(* manager (DirectoryManager) of speech-synth-engine.                      *)
(*                                                                         *)
(* The file system is modelled by three variables: the set of wav          *)
(* directories, the set of audio files and, per directory triple, the      *)
(* physical lines of metadata.tsv.  A batch run walks the iteration order  *)
(* of the nested loops of synthesize_from_text_list / clone_from_text_list *)
(* one loop step at a time; the call into the synthesis capability is an   *)
(* opaque step of its own, so that an interruption can arrive around it.   *)
(***************************************************************************)
EXTENDS Integers, Sequences, FiniteSets, TLC

(* ------------------------------ bounds --------------------------------- *)
MaxItems == 2
MaxRuns == 2
MaxFaults == 1
MaxAppends == 2
MaxLines == 3

(* ------------------------ program constants ---------------------------- *)
PrefixLen == 50
MaxNameLen == 50
KeepLen == 47
CharsPerSecond == 12
MinDuration == 50
MaxDuration == 1000

(* ------------------------------ inputs --------------------------------- *)
\* Texts are sequences of characters.
Texts == { <<"a">>, <<" ">>, <<"a", "\n", "b">> }

\* (provider, model_or_reference, voice) triples a caller may pass.
ConfigPool ==
    { [provider |-> "gtts", model |-> "default", voice |-> "vi"],
      [provider |-> "minimax", model |-> "default", voice |-> "vi"],
      [provider |-> "minimax", model |-> "default", voice |-> "en"],
      [provider |-> "azure", model |-> "default", voice |-> "vi"] }

BatchSizes == {1, 2}
Operations == {"synthesize", "clone"}

\* values a caller may pass as tts_type
TtsTypes == {"synthesize", "clone", "Clone", "dub"}
\* reference_audio: None, a path with no file behind it, a path to a file
References == {"none", "absent", "exists"}

\* self.providers: the names that DatasetGenerator.__init__ registered.
Registered == {"gtts", "minimax"}
\* providers carrying a true is_selenium attribute
SeleniumProviders == {"minimax"}

(* --------------------------- small helpers ----------------------------- *)
Min(a, b) == IF a < b THEN a ELSE b
Max(a, b) == IF a > b THEN a ELSE b

RECURSIVE Flatten(_)
Flatten(ss) == IF ss = <<>> THEN <<>> ELSE Head(ss) \o Flatten(Tail(ss))

Range(s) == {s[k] : k \in 1..Len(s)}

IsPrefix(s, t) == Len(s) <= Len(t) /\ SubSeq(t, 1, Len(s)) = s

Count(seq, P(_)) == Cardinality({k \in 1..Len(seq) : P(seq[k])})

(* ------------------------------ text ----------------------------------- *)
IsSpace(ch) == ch \in {" ", "\n", "\t", "\r"}

RECURSIVE LStrip(_)
LStrip(t) == IF t # <<>> /\ IsSpace(Head(t)) THEN LStrip(Tail(t)) ELSE t

RECURSIVE RStrip(_)
RStrip(t) ==
    IF t # <<>> /\ IsSpace(t[Len(t)]) THEN RStrip(SubSeq(t, 1, Len(t) - 1)) ELSE t

\* str.strip()
Strip(t) == RStrip(LStrip(t))

\* `not text.strip()`
IsBlank(t) == Strip(t) = <<>>

\* text[:50]
Prefix(t) == SubSeq(t, 1, Min(Len(t), PrefixLen))

Hostile == {"<", ">", ":", "\"", "/", "\\", "|", "?", "*"}

\* re.sub(r'\s+', '_', s): every run of white space becomes one underscore
RECURSIVE Collapse(_)
Collapse(t) ==
    IF t = <<>> THEN <<>>
    ELSE IF IsSpace(Head(t)) THEN <<"_">> \o Collapse(LStrip(t))
    ELSE <<Head(t)>> \o Collapse(Tail(t))

\* DatasetGenerator._sanitize_filename
SanitizeFilename(t) ==
    LET kept == SelectSeq(t, LAMBDA ch : ch \notin Hostile)
        s == Collapse(Strip(kept))
    IN  IF Len(s) > MaxNameLen THEN SubSeq(s, 1, KeepLen) \o <<".", ".", ".">> ELSE s

\* TTSProvider.estimate_duration, in hundredths of a second
EstimateDuration(t) ==
    Max(MinDuration, Min(MaxDuration, (Len(t) * 100) \div CharsPerSecond))

\* physical lines that csv.writer emits for a row holding this text: the
\* field is quoted and its line breaks are written as they are
RowLines(t) == 1 + Cardinality({k \in 1..Len(t) : t[k] \in {"\n", "\r"}})


(* ------------------------------ state ---------------------------------- *)
VARIABLES
    request,        \* the call: entry point, tts_type and reference_audio
    items,          \* text_items: the text of item i; its id is i
    configs,        \* provider_model_voice_list
    op,             \* "synthesize" or "clone": which *_from_text_list runs
    coe,            \* continue_on_error
    pc,             \* "idle", "loop", "calling", "returned", "done", and
                    \* "raised": the call ended with an exception
    pos,            \* next step of the iteration order
    results,        \* all_results
    errors,         \* errors
    calls,          \* (item, config) of every *_with_metadata call of this run
    ret,            \* what the capability call returned: "none", "ok", "fail"
    interrupted,    \* the run ended in `except KeyboardInterrupt`
    runNo,          \* number of runs started
    faults,         \* disturbances so far: capability calls that did not succeed
                    \* with a written file, and interruptions
    dirs,           \* locations whose wav directory exists
    wav,            \* audio files on disk
    ledger,         \* location -> physical lines of metadata.tsv (<<>>: no file)
    wavAtStart,     \* wav when the current run started
    ledgerAtStart,  \* number of lines of every ledger when the current run started
    sched,          \* the loop steps of the run, in order, for the batch_size passed
    writers,        \* callers of add_metadata_entry: where each one stands
    api             \* the last direct call of a DirectoryManager method and
                    \* what it returned

vars == <<request, items, configs, op, coe, pc, pos, results, errors, calls, ret,
          interrupted, runNo, faults, dirs, wav, ledger, wavAtStart, ledgerAtStart,
          sched, writers, api>>

apiVars == <<writers, api>>
inputVars == <<request, items, configs, op, coe, sched>>
runVars == <<runNo, wavAtStart, ledgerAtStart>>
fsVars == <<dirs, wav, ledger>>

Location(cfg) == <<cfg.provider, cfg.model, cfg.voice>>
Locations == {Location(c) : c \in ConfigPool}

(* ------------------------- DirectoryManager ---------------------------- *)
SynthesizeColumns ==
    <<"utt_id", "text_id", "text", "audio_path", "provider", "model", "voice",
      "tts_type", "sample_rate", "lang", "duration", "gen_date">>

\* the columns initialize_metadata_file_clone writes, and the fields of an
\* entry of add_metadata_entry_clone
CloneColumns ==
    <<"utt_id", "text_id", "text", "audio_path", "provider", "reference_audio",
      "tts_type", "sample_rate", "lang", "duration", "gen_date", "audio_url",
      "clone_id">>

\* the header line initialize_metadata_file writes: its default columns
HeaderLine == [kind |-> "header", schema |-> "synthesize"]

\* the column names a header line holds
ColumnsOf(line) == IF line.schema = "synthesize" THEN SynthesizeColumns ELSE <<>>

\* DirectoryManager.initialize_metadata_file, on the content of one file
InitializeMetadataFileAlways(file) == <<HeaderLine>>
InitializeMetadataFile(file) == IF file # <<>> THEN file ELSE <<HeaderLine>>

\* DirectoryManager.create_output_directory: its effect on the ledger files
CreateOutputDirectoryTruncating(led, loc) ==
    [led EXCEPT ![loc] = <<HeaderLine>>]
CreateOutputDirectory(led, loc) ==
    [led EXCEPT ![loc] = InitializeMetadataFile(@)]

\* `sum(1 for _ in f) - 1` when the file exists, else 0
CurrentCount(file) == IF file # <<>> THEN Len(file) - 1 ELSE 0

\* DirectoryManager.get_next_utt_id
GetNextUttId(file) == IF file = <<>> THEN 1 ELSE (Len(file) - 1) + 1

\* the physical lines csv.writer appends for one entry
RowOf(utt, text_id, text, audio_path, tts_type, duration) ==
    [k \in 1..RowLines(text) |->
        IF k = 1
        THEN [kind |-> "row", utt_id |-> utt, text_id |-> text_id,
              audio_path |-> audio_path, tts_type |-> tts_type,
              duration |-> duration]
        ELSE [kind |-> "continuation", utt_id |-> utt]]

\* DirectoryManager.add_metadata_entry / add_metadata_entry_clone, on the
\* content of one file
AddMetadataEntry(file, text_id, text, audio_path, tts_type, duration) ==
    file \o RowOf(CurrentCount(file) + 1, text_id, text, audio_path, tts_type, duration)

\* the second half of add_metadata_entry, for a count taken earlier:
\* `open(metadata_file, 'a')` and writer.writerow(entry)
WriteRowAtCount(file, count, text_id, text, audio_path, tts_type, duration) ==
    SubSeq(file, 1, Min(Len(file), count + 1))
        \o RowOf(count + 1, text_id, text, audio_path, tts_type, duration)
WriteRow(file, count, text_id, text, audio_path, tts_type, duration) ==
    file \o RowOf(count + 1, text_id, text, audio_path, tts_type, duration)

\* csv.DictReader(f), as validate_structure and cleanup_orphaned_files open
\* it: the delimiter is the comma. The header was written by csv.writer(f)
\* and splits into its columns; a row was written with delimiter '\t', and
\* as no field of this model holds a comma, each of its physical lines is a
\* record of one field
CommaFieldCount(line) ==
    IF line.kind = "header" THEN Len(ColumnsOf(line)) ELSE 1
\* reader.fieldnames: the fields of the first line of the file
FieldNames(file) ==
    IF Head(file).kind = "header" THEN ColumnsOf(Head(file)) ELSE <<"line">>
\* the records after the first line
Records(file) == Tail(file)
ColumnIndex(fieldnames, column) ==
    CHOOSE k \in 1..Len(fieldnames) : fieldnames[k] = column
\* row.get('audio_path', ''): "value" when the record has that field, "None"
\* (DictReader's restval) when the record is shorter than the field names,
\* "" when no field name is audio_path
GetAudioPath(fieldnames, line) ==
    IF "audio_path" \notin Range(fieldnames) THEN ""
    ELSE IF CommaFieldCount(line) < ColumnIndex(fieldnames, "audio_path")
         THEN "None"
         ELSE "value"

\* the fields of the entry a data row was written from: add_metadata_entry
\* writes the twelve synthesize fields, add_metadata_entry_clone the thirteen
\* clone fields
EntryColumns(row) ==
    IF row.tts_type = "clone" THEN CloneColumns ELSE SynthesizeColumns

\* the data rows of a ledger, in file order
DataRows(file) == SelectSeq(file, LAMBDA ln : ln.kind = "row")

(* --------------------------- iteration order --------------------------- *)
Skip(i) == [kind |-> "skip", i |-> i, c |-> 0]
Attempt(i, c) == [kind |-> "attempt", i |-> i, c |-> c]
Missing(c) == [kind |-> "missing", i |-> 0, c |-> c]

RECURSIVE Sorted(_)
Sorted(S) ==
    IF S = {} THEN <<>>
    ELSE LET m == CHOOSE x \in S : \A y \in S : x <= y
         IN  <<m>> \o Sorted(S \ {m})

\* range(0, len(text_items), batch_size) and text_items[i:i+batch_size]
Batches(n, b) ==
    [k \in 1..((n + b - 1) \div b) |->
        [j \in 1..Min(b, n - (k - 1) * b) |-> (k - 1) * b + j]]

\* one text item against a list of configurations: the blank check, then the
\* inner loop
ItemStepsNoBlankCheck(its, i, cs) == [x \in 1..Len(cs) |-> Attempt(i, cs[x])]
ItemSteps(its, i, cs) ==
    IF IsBlank(its[i]) THEN <<Skip(i)>>
    ELSE [x \in 1..Len(cs) |-> Attempt(i, cs[x])]

\* `for text_id, text in batch_items: ... for ... in pairs:`
ItemsOuterSwapped(its, batch, cs) ==
    Flatten([x \in 1..Len(cs) |->
        Flatten([j \in 1..Len(batch) |-> ItemSteps(its, batch[j], <<cs[x]>>)])])
ItemsOuter(its, batch, cs) ==
    Flatten([j \in 1..Len(batch) |-> ItemSteps(its, batch[j], cs)])

\* the is_selenium branch: `for ref_filename, voice in ref_voice_pairs:
\* for text_id, text in batch_items:`
ConfigsOuter(its, batch, cs) ==
    Flatten([x \in 1..Len(cs) |->
        Flatten([j \in 1..Len(batch) |-> ItemSteps(its, batch[j], <<cs[x]>>)])])

\* DatasetGenerator.synthesize_from_text_list: the order of its loop steps
SynthesizeSchedule(its, cfgs, b) ==
    LET bs == Batches(Len(its), b)
        all == [c \in 1..Len(cfgs) |-> c]
    IN  Flatten([k \in 1..Len(bs) |-> ItemsOuter(its, bs[k], all)])

\* provider_groups: the first configuration of every provider, in list order
GroupHeads(cfgs) ==
    Sorted({c \in 1..Len(cfgs) :
              \A d \in 1..(c - 1) : cfgs[d].provider # cfgs[c].provider})

\* provider_groups[provider_name]
GroupPairs(cfgs, g) ==
    Sorted({c \in 1..Len(cfgs) : cfgs[c].provider = cfgs[g].provider})

\* DatasetGenerator.clone_from_text_list: the order of its loop steps
CloneSchedule(its, cfgs, b) ==
    LET bs == Batches(Len(its), b)
        heads == GroupHeads(cfgs)
        Group(g) ==
            IF cfgs[g].provider \notin Registered THEN <<Missing(g)>>
            ELSE Flatten([k \in 1..Len(bs) |->
                    IF cfgs[g].provider \in SeleniumProviders
                    THEN ConfigsOuter(its, bs[k], GroupPairs(cfgs, g))
                    ELSE ItemsOuter(its, bs[k], GroupPairs(cfgs, g))])
    IN  Flatten([h \in 1..Len(heads) |-> Group(heads[h])])

\* the loop steps of a run, in the order the run takes them
ScheduleOf(o, its, cfgs, b) ==
    IF o = "clone" THEN CloneSchedule(its, cfgs, b)
    ELSE SynthesizeSchedule(its, cfgs, b)


(* --------------------------- preconditions ----------------------------- *)
\* str.lower() on the values of TtsTypes
Lower(t) == IF t = "Clone" THEN "clone" ELSE t

\* synthesize_from_text_list: the checks before the loop; "raise", or the
\* operation that runs
SynthesizeChecks(its, cfgs) ==
    IF its = <<>> THEN "raise"
    ELSE IF cfgs = <<>> THEN "raise"
    ELSE "synthesize"

\* clone_from_text_list: the checks before the loop
CloneChecks(ref, its, cfgs) ==
    IF ref = "none" \/ ref # "exists" THEN "raise"
    ELSE IF its = <<>> THEN "raise"
    ELSE IF cfgs = <<>> THEN "raise"
    ELSE "clone"

\* generate_from_text_list: input validation, then the routing; "empty" is
\* the return of a summary of zeros
GenerateChecks(req, its, cfgs) ==
    IF its = <<>> THEN "empty"
    ELSE IF cfgs = <<>> THEN "raise"
    ELSE IF Lower(req.tts_type) \notin {"synthesize", "clone"} THEN "raise"
    ELSE IF Lower(req.tts_type) = "clone" /\ req.reference_audio = "none" THEN "raise"
    ELSE IF Lower(req.tts_type) = "clone" /\ req.reference_audio # "exists" THEN "raise"
    ELSE IF Lower(req.tts_type) = "synthesize" THEN SynthesizeChecks(its, cfgs)
    ELSE CloneChecks(req.reference_audio, its, cfgs)

\* what a call does before any item is processed
Checks(req, its, cfgs) ==
    IF req.entry = "generate" THEN GenerateChecks(req, its, cfgs)
    ELSE IF req.entry = "clone" THEN CloneChecks(req.reference_audio, its, cfgs)
    ELSE SynthesizeChecks(its, cfgs)

(* ---------------------------- orchestrator ----------------------------- *)
Schedule == sched
Step == Schedule[pos]
Text(i) == items[i]

\* wav_dir / f"{text_id}_{safe_text}.wav"
AudioPath(i, c) ==
    [loc |-> Location(configs[c]),
     name |-> <<i, SanitizeFilename(Prefix(Text(i)))>>]

\* audio_path.exists()
ExistsForNever(path) == FALSE
ExistsFor(path) == path \in wav

\* SynthesisResult / CloneResult appended to all_results
\* (its audio_path is AudioPath(i, c))
OutcomeWithEstimate(i, c, skipped, duration) ==
    [i |-> i, c |-> c, success |-> TRUE, skipped_duplicate |-> skipped,
     duration |-> EstimateDuration(Text(i))]
Outcome(i, c, skipped, duration) ==
    [i |-> i, c |-> c, success |-> TRUE, skipped_duplicate |-> skipped,
     duration |-> duration]

\* synth_result.get('estimated_duration', 0): TTSProvider.synthesize_with_metadata
\* sets it, MiniMaxSeleniumProvider.clone_with_metadata does not
ReportedDuration(i) ==
    IF op = "synthesize" THEN EstimateDuration(Text(i)) ELSE 0

ItemError(i, c) == [kind |-> "item", i |-> i, c |-> c]
WrappedError(i, c) == [kind |-> "wrapped", i |-> i, c |-> c]
ProviderError(c) == [kind |-> "provider", i |-> 0, c |-> c]
CriticalError == [kind |-> "critical", i |-> 0, c |-> 0]

\* the error strings one failed result leaves: `errors.append(...)`, then with
\* continue_on_error false `raise Exception`, the enclosing `except Exception`
\* (append, re-raise) and the outermost `except Exception` (append)
FailureErrors(errs, i, c, cont) ==
    IF cont THEN Append(errs, ItemError(i, c))
    ELSE errs \o <<ItemError(i, c), WrappedError(i, c), CriticalError>>

\* where the loop stands after a failed result
AfterFailureContinue(cont) == "loop"
AfterFailureRaises(cont) == IF cont THEN "loop" ELSE "raised"
AfterFailure(cont) == IF cont THEN "loop" ELSE "done"

\* a call whose checks raise: the exception reaches the caller
RejectCall ==
    /\ pc = "idle"
    /\ Checks(request, items, configs) = "raise"
    /\ pc' = "raised"
    /\ UNCHANGED <<inputVars, apiVars, runVars, pos, results, errors, calls, ret,
                   interrupted, faults, fsVars>>

\* generate_from_text_list with no text items: a summary of zeros is returned
ReturnEmptySummary ==
    /\ pc = "idle"
    /\ Checks(request, items, configs) = "empty"
    /\ pc' = "done"
    /\ UNCHANGED <<inputVars, apiVars, runVars, pos, results, errors, calls, ret,
                   interrupted, faults, fsVars>>

\* a call whose checks pass: the run begins
StartRun ==
    /\ pc \in {"idle", "done"}
    /\ op \in Operations
    /\ Checks(request, items, configs) = op
    /\ runNo < MaxRuns
    /\ pc' = "loop"
    /\ pos' = 1
    /\ results' = <<>>
    /\ errors' = <<>>
    /\ calls' = <<>>
    /\ ret' = "none"
    /\ interrupted' = FALSE
    /\ runNo' = runNo + 1
    /\ wavAtStart' = wav
    /\ ledgerAtStart' = [l \in Locations |-> Len(ledger[l])]
    /\ UNCHANGED <<inputVars, apiVars, faults, fsVars>>

\* `if not text.strip(): continue`
SkipBlank ==
    /\ pc = "loop"
    /\ pos <= Len(Schedule)
    /\ Step.kind = "skip"
    /\ pos' = pos + 1
    /\ UNCHANGED <<inputVars, apiVars, runVars, pc, results, errors, calls, ret,
                   interrupted, faults, fsVars>>

\* clone_from_text_list: `if not provider:` for a provider group
MissingProvider ==
    /\ pc = "loop"
    /\ pos <= Len(Schedule)
    /\ Step.kind = "missing"
    /\ errors' = IF coe THEN Append(errors, ProviderError(Step.c))
                 ELSE errors \o <<ProviderError(Step.c), CriticalError>>
    /\ pc' = AfterFailure(coe)
    /\ pos' = pos + 1
    /\ UNCHANGED <<inputVars, apiVars, runVars, results, calls, ret, interrupted,
                   faults, fsVars>>

\* synthesize_single_text with a provider name that is not registered
UnavailableProvider ==
    /\ pc = "loop"
    /\ pos <= Len(Schedule)
    /\ Step.kind = "attempt"
    /\ configs[Step.c].provider \notin Registered
    /\ errors' = FailureErrors(errors, Step.i, Step.c, coe)
    /\ pc' = AfterFailure(coe)
    /\ pos' = pos + 1
    /\ UNCHANGED <<inputVars, apiVars, runVars, results, calls, ret, interrupted,
                   faults, fsVars>>

\* the ledger after the duplicate branch: synthesize_single_text adds an
\* entry, clone_single_text does not
DuplicateLedger(led, i, c) ==
    IF op = "synthesize"
    THEN [led EXCEPT ![Location(configs[c])] =
            AddMetadataEntry(@, i, Text(i), AudioPath(i, c), "synthesize", 0)]
    ELSE led

\* add_metadata_entry* ends in `except Exception: return False`: the entry is
\* written (appended) or the file is left as it was, and the caller drops the
\* return value
LedgerFault(appended) ==
    /\ appended \/ faults < MaxFaults
    /\ faults' = IF appended THEN faults ELSE faults + 1

\* *_single_text up to the existence check, with an audio file that exists
SkipDuplicate ==
    /\ pc = "loop"
    /\ pos <= Len(Schedule)
    /\ Step.kind = "attempt"
    /\ configs[Step.c].provider \in Registered
    /\ ExistsFor(AudioPath(Step.i, Step.c))
    /\ dirs' = dirs \cup {Location(configs[Step.c])}
    /\ \E appended \in BOOLEAN :
          /\ appended \/ op = "synthesize"
          /\ LedgerFault(appended)
          /\ ledger' = IF appended
                        THEN DuplicateLedger(
                                CreateOutputDirectory(ledger, Location(configs[Step.c])),
                                Step.i, Step.c)
                        ELSE CreateOutputDirectory(ledger, Location(configs[Step.c]))
    /\ results' = Append(results, Outcome(Step.i, Step.c, TRUE, 0))
    /\ pos' = pos + 1
    /\ UNCHANGED <<inputVars, apiVars, runVars, pc, errors, calls, ret, interrupted, wav>>

\* *_single_text up to the call of provider.*_with_metadata
InvokeCapability ==
    /\ pc = "loop"
    /\ pos <= Len(Schedule)
    /\ Step.kind = "attempt"
    /\ configs[Step.c].provider \in Registered
    /\ ~ExistsFor(AudioPath(Step.i, Step.c))
    /\ dirs' = dirs \cup {Location(configs[Step.c])}
    /\ ledger' = CreateOutputDirectory(ledger, Location(configs[Step.c]))
    /\ calls' = Append(calls, <<Step.i, Step.c>>)
    /\ pc' = "calling"
    /\ UNCHANGED <<inputVars, apiVars, runVars, pos, results, errors, ret, interrupted,
                   faults, wav>>

\* provider.*_with_metadata returns: success or not, output file written or not
CapabilityReturns ==
    /\ pc = "calling"
    /\ \E success \in BOOLEAN, written \in BOOLEAN :
          /\ (success /\ written) \/ faults < MaxFaults
          /\ faults' = IF success /\ written THEN faults ELSE faults + 1
          /\ wav' = IF written THEN wav \cup {AudioPath(Step.i, Step.c)} ELSE wav
          /\ ret' = IF success THEN "ok" ELSE "fail"
    /\ pc' = "returned"
    /\ UNCHANGED <<inputVars, apiVars, runVars, pos, results, errors, calls,
                   interrupted, dirs, ledger>>

\* `if synth_result['success']:` add the entry, return the result; the loop
\* appends it to all_results
RecordSuccessStrict ==
    /\ pc = "returned"
    /\ ret = "ok"
    /\ \E appended \in BOOLEAN :
          /\ LedgerFault(appended)
          /\ ledger' = IF appended
                        THEN [ledger EXCEPT ![Location(configs[Step.c])] =
                                AddMetadataEntry(@, Step.i, Text(Step.i),
                                                 AudioPath(Step.i, Step.c), op,
                                                 ReportedDuration(Step.i))]
                        ELSE ledger
          /\ results' = IF appended
                         THEN Append(results, Outcome(Step.i, Step.c, FALSE,
                                                      ReportedDuration(Step.i)))
                         ELSE results
          /\ errors' = IF appended THEN errors
                        ELSE FailureErrors(errors, Step.i, Step.c, coe)
          /\ pc' = IF appended THEN "loop" ELSE AfterFailure(coe)
    /\ pos' = pos + 1
    /\ ret' = "none"
    /\ UNCHANGED <<inputVars, apiVars, runVars, calls, interrupted, dirs, wav>>
RecordSuccess ==
    /\ pc = "returned"
    /\ ret = "ok"
    /\ \E appended \in BOOLEAN :
          /\ LedgerFault(appended)
          /\ ledger' = IF appended
                        THEN [ledger EXCEPT ![Location(configs[Step.c])] =
                                AddMetadataEntry(@, Step.i, Text(Step.i),
                                                 AudioPath(Step.i, Step.c), op,
                                                 ReportedDuration(Step.i))]
                        ELSE ledger
    /\ results' = Append(results,
                         Outcome(Step.i, Step.c, FALSE, ReportedDuration(Step.i)))
    /\ pc' = "loop"
    /\ pos' = pos + 1
    /\ ret' = "none"
    /\ UNCHANGED <<inputVars, apiVars, runVars, errors, calls, interrupted, dirs, wav>>

\* the `else:` branches: a failure result, the error strings, and the stop
\* when continue_on_error is false
RecordFailureRetry ==
    /\ pc = "returned"
    /\ ret = "fail"
    /\ calls' = Append(calls, <<Step.i, Step.c>>)
    /\ pc' = "calling"
    /\ ret' = "none"
    /\ UNCHANGED <<inputVars, apiVars, runVars, pos, results, errors, interrupted,
                   faults, fsVars>>
RecordFailure ==
    /\ pc = "returned"
    /\ ret = "fail"
    /\ errors' = FailureErrors(errors, Step.i, Step.c, coe)
    /\ pc' = AfterFailure(coe)
    /\ pos' = pos + 1
    /\ ret' = "none"
    /\ UNCHANGED <<inputVars, apiVars, runVars, results, calls, interrupted, faults,
                   fsVars>>

\* KeyboardInterrupt between two loop steps or after the capability returned
InterruptAsError ==
    /\ pc \in {"loop", "returned"}
    /\ pos <= Len(Schedule)
    /\ faults < MaxFaults
    /\ faults' = faults + 1
    /\ pc' = "done"
    /\ interrupted' = TRUE
    /\ errors' = Append(errors, CriticalError)
    /\ pos' = IF pc = "returned" THEN pos + 1 ELSE pos
    /\ ret' = "none"
    /\ UNCHANGED <<inputVars, apiVars, runVars, results, calls, fsVars>>
Interrupt ==
    /\ pc \in {"loop", "returned"}
    /\ pos <= Len(Schedule)
    /\ faults < MaxFaults
    /\ faults' = faults + 1
    /\ pc' = "done"
    /\ interrupted' = TRUE
    /\ pos' = IF pc = "returned" THEN pos + 1 ELSE pos
    /\ ret' = "none"
    /\ UNCHANGED <<inputVars, apiVars, runVars, results, errors, calls, fsVars>>

\* KeyboardInterrupt while the capability call is in flight: the output file
\* may or may not have been written
InterruptCall ==
    /\ pc = "calling"
    /\ \E written \in BOOLEAN :
          wav' = IF written THEN wav \cup {AudioPath(Step.i, Step.c)} ELSE wav
    /\ faults < MaxFaults
    /\ faults' = faults + 1
    /\ pc' = "done"
    /\ interrupted' = TRUE
    /\ pos' = pos + 1
    /\ UNCHANGED <<inputVars, apiVars, runVars, results, errors, calls, ret,
                   dirs, ledger>>

\* the loops are exhausted: the summary is built and returned
FinishRun ==
    /\ pc = "loop"
    /\ pos > Len(Schedule)
    /\ pc' = "done"
    /\ UNCHANGED <<inputVars, apiVars, runVars, pos, results, errors, calls, ret,
                   interrupted, faults, fsVars>>

\* BatchGenerationSummary
Summary ==
    [total_texts |-> Len(items),
     successful_generations |-> Count(results, LAMBDA r : r.success),
     failed_generations |-> Len(errors),
     errors |-> errors,
     results |-> results]

\* no caller uses the DirectoryManager but the orchestrator
Writers == {1, 2}
\* a caller outside a call, and the calls it has made
Returned(n) == [pc |-> "idle", calls |-> n]
IdleWriter == Returned(0)
NoCall == [call |-> "none"]
NoDirectCalls ==
    /\ writers = [w \in Writers |-> IdleWriter]
    /\ api = NoCall

\* text_items: up to MaxItems texts, the id of an item being its position
ItemLists == UNION {[1..n -> Texts] : n \in 1..MaxItems}
\* the two voices of one provider are interchangeable: a list names the
\* voice "en" only after it has named the voice "vi" of that provider
VoicesInOrder(cfgs) ==
    \A k \in 1..Len(cfgs) :
        cfgs[k].voice = "en" =>
            \E j \in 1..(k - 1) :
                cfgs[j].provider = cfgs[k].provider /\ cfgs[j].voice = "vi"

\* provider_model_voice_list: one or two configurations, repeats allowed
ConfigLists ==
    {cfgs \in {<<c>> : c \in ConfigPool}
                \cup {<<c, d>> : c \in ConfigPool, d \in ConfigPool} :
        VoicesInOrder(cfgs)}

\* a direct call of synthesize_from_text_list or clone_from_text_list that
\* passes its checks
DirectRequest(o) ==
    [entry |-> o, tts_type |-> o,
     reference_audio |-> IF o = "clone" THEN "exists" ELSE "none"]

Init ==
    /\ items \in ItemLists
    /\ configs \in ConfigLists
    /\ op \in Operations
    /\ request = DirectRequest(op)
    /\ coe \in BOOLEAN
    /\ \E batch_size \in BatchSizes :
          sched = ScheduleOf(op, items, configs, batch_size)
    /\ pc = "idle"
    /\ pos = 1
    /\ results = <<>>
    /\ errors = <<>>
    /\ calls = <<>>
    /\ ret = "none"
    /\ interrupted = FALSE
    /\ runNo = 0
    /\ faults = 0
    /\ dirs = {}
    /\ wav = {}
    /\ ledger = [l \in Locations |-> <<>>]
    /\ wavAtStart = {}
    /\ ledgerAtStart = [l \in Locations |-> 0]
    /\ NoDirectCalls

Next ==
    \/ StartRun
    \/ SkipBlank
    \/ MissingProvider
    \/ UnavailableProvider
    \/ SkipDuplicate
    \/ InvokeCapability
    \/ CapabilityReturns
    \/ RecordSuccess
    \/ RecordFailure
    \/ Interrupt
    \/ InterruptCall
    \/ FinishRun

Spec == Init /\ [][Next]_vars

(* ------------- calls of every entry point, valid or not ---------------- *)
\* the calls a caller may make; a direct call of synthesize_from_text_list
\* takes neither tts_type nor reference_audio
Requests ==
    {[entry |-> "generate", tts_type |-> t, reference_audio |-> r] :
        t \in TtsTypes, r \in References}
    \cup {[entry |-> "clone", tts_type |-> "clone", reference_audio |-> r] :
        r \in References}
    \cup {DirectRequest("synthesize")}

EntryItemLists == {<<>>} \cup ItemLists
EntryConfigLists == {<<>>} \cup {cfgs \in ConfigLists : Len(cfgs) = 1}

\* the state before the first call, the call being drawn from reqs and its
\* lists from itemLists and configLists
Begin(reqs, itemLists, configLists) ==
    /\ request \in reqs
    /\ items \in itemLists
    /\ configs \in configLists
    /\ op = Checks(request, items, configs)
    /\ coe \in BOOLEAN
    /\ \E batch_size \in BatchSizes :
          sched = IF op \in Operations
                  THEN ScheduleOf(op, items, configs, batch_size)
                  ELSE <<>>
    /\ pc = "idle"
    /\ pos = 1
    /\ results = <<>>
    /\ errors = <<>>
    /\ calls = <<>>
    /\ ret = "none"
    /\ interrupted = FALSE
    /\ runNo = 0
    /\ faults = 0
    /\ dirs = {}
    /\ wav = {}
    /\ ledger = [l \in Locations |-> <<>>]
    /\ wavAtStart = {}
    /\ ledgerAtStart = [l \in Locations |-> 0]
    /\ NoDirectCalls

EntryInit == Begin(Requests, EntryItemLists, EntryConfigLists)

EntryNext ==
    \/ RejectCall
    \/ ReturnEmptySummary
    \/ Next

EntrySpec == EntryInit /\ [][EntryNext]_vars

\* the steps of a run that the orchestrator takes by itself; the capability
\* call is assumed to return
RunStep ==
    \/ SkipBlank
    \/ MissingProvider
    \/ UnavailableProvider
    \/ SkipDuplicate
    \/ InvokeCapability
    \/ CapabilityReturns
    \/ RecordSuccess
    \/ RecordFailure
    \/ FinishRun

\* calls of generate_from_text_list, the entry point that routes to both
\* operations, over texts without line breaks
LiveRequests ==
    {r \in Requests :
        /\ r.entry = "generate"
        /\ r.tts_type \in Operations \cup {"dub"}
        /\ r.reference_audio = IF r.tts_type = "synthesize" THEN "none" ELSE "exists"}
LiveItemLists ==
    {<<>>} \cup {its \in ItemLists : \A k \in 1..Len(its) : "\n" \notin Range(its[k])}

LiveInit == Begin(LiveRequests, LiveItemLists, EntryConfigLists)

LiveSpec == LiveInit /\ [][EntryNext]_vars /\ WF_vars(RunStep)


(* -------------- direct calls of the DirectoryManager ------------------- *)
\* the location the calls are about, and the entries callers record
ManagedLocation == <<"gtts", "default", "vi">>
Entries ==
    {[text_id |-> 1, text |-> <<"a">>], [text_id |-> 2, text |-> <<"a", "\n", "b">>]}
EntryPath(e) ==
    [loc |-> ManagedLocation, name |-> <<e.text_id, SanitizeFilename(Prefix(e.text))>>]
AudioFiles(loc) == {f \in wav : f.loc = loc}

orchestratorVars ==
    <<inputVars, runVars, pc, pos, results, errors, calls, ret, interrupted,
      faults>>

\* DirectoryManager.create_output_directory called directly. mkdir may fail,
\* and the exception is logged and raised again; the header write may fail,
\* and initialize_metadata_file returns False for it, which
\* create_output_directory does not look at.
EnsureLocation ==
    /\ \E outcome \in {"ok", "mkdir_fails", "header_fails"} :
          /\ outcome = "mkdir_fails" => ManagedLocation \notin dirs
          /\ outcome = "header_fails" => ledger[ManagedLocation] = <<>>
          /\ dirs' = IF outcome = "mkdir_fails"
                     THEN dirs ELSE dirs \cup {ManagedLocation}
          /\ ledger' = IF outcome = "ok"
                       THEN CreateOutputDirectory(ledger, ManagedLocation)
                       ELSE ledger
          /\ api' = [call |-> "create_output_directory",
                     fault |-> outcome,
                     raised |-> outcome = "mkdir_fails"]
    /\ UNCHANGED <<orchestratorVars, writers, wav>>

\* a capability writes the audio file of an entry into the wav directory
StoreAudio ==
    /\ ManagedLocation \in dirs
    /\ \E e \in Entries : e.text_id <= MaxItems /\ wav' = wav \cup {EntryPath(e)}
    /\ wav' # wav
    /\ api' = NoCall
    /\ UNCHANGED <<orchestratorVars, writers, dirs, ledger>>

\* calls of add_metadata_entry in progress or returned, at most MaxAppends
Appends ==
    writers[1].calls + writers[2].calls
        + Cardinality({w \in Writers : writers[w].pc = "counted"})

\* add_metadata_entry, first half: count the lines of the file. The writers
\* being alike, the second one starts a call only during a call of the first.
WriterCounts(w) ==
    /\ writers[w].pc = "idle"
    /\ w = 2 => writers[1].pc = "counted"
    /\ Appends < MaxAppends
    /\ \E e \in Entries :
          /\ e.text_id <= MaxItems
          /\ writers' = [writers EXCEPT ![w] =
                [pc |-> "counted", calls |-> writers[w].calls, entry |-> e,
                 count |-> CurrentCount(ledger[ManagedLocation])]]
    /\ api' = NoCall
    /\ UNCHANGED <<orchestratorVars, fsVars>>

\* add_metadata_entry, second half: append the row; open() fails in a
\* directory that does not exist and the method returns False
WriterAppends(w) ==
    /\ writers[w].pc = "counted"
    /\ ledger' = IF ManagedLocation \in dirs
                 THEN [ledger EXCEPT ![ManagedLocation] =
                        WriteRow(@, writers[w].count, writers[w].entry.text_id,
                                 writers[w].entry.text, EntryPath(writers[w].entry),
                                 "synthesize", EstimateDuration(writers[w].entry.text))]
                 ELSE ledger
    /\ writers' = [writers EXCEPT ![w] = Returned(@.calls + 1)]
    /\ api' = [call |-> "add_metadata_entry",
               returned |-> ManagedLocation \in dirs]
    /\ UNCHANGED <<orchestratorVars, dirs, wav>>

\* DirectoryManager.validate_structure: what it returns
ValidateStructure(loc) ==
    LET file == ledger[loc]
        values == {GetAudioPath(FieldNames(file), Records(file)[k]) :
                      k \in 1..Len(Records(file))}
        \* None.split raises AttributeError, caught by `except Exception`
        raises == file # <<>> /\ loc \in dirs /\ "None" \in values
        metadata_files ==
            {Records(file)[k].audio_path :
                k \in {j \in 1..Len(Records(file)) :
                          GetAudioPath(FieldNames(file), Records(file)[j]) = "value"}}
    IN  [missing_directories |-> IF loc \in dirs THEN {} ELSE {loc},
         missing_files |-> IF file = <<>> THEN {loc} ELSE {},
         total_entries |-> IF file = <<>> THEN 0 ELSE Len(file) - 1,
         orphaned_files |-> IF file = <<>> \/ loc \notin dirs \/ raises
                            THEN {}
                            ELSE AudioFiles(loc) \ metadata_files,
         is_valid |-> loc \in dirs /\ file # <<>> /\ ~raises]

Audit ==
    /\ api' = [call |-> "validate_structure",
               issues |-> ValidateStructure(ManagedLocation)]
    /\ api' # api
    /\ UNCHANGED <<orchestratorVars, writers, fsVars>>

\* DirectoryManager.cleanup_orphaned_files: the files it lists
FilesToRemove(loc) ==
    LET file == ledger[loc]
        valid_files ==
            {Records(file)[k].audio_path :
                k \in {j \in 1..Len(Records(file)) :
                          GetAudioPath(FieldNames(file), Records(file)[j]) = "value"}}
    IN  IF loc \notin dirs \/ file = <<>>
        THEN {}
        ELSE AudioFiles(loc) \ valid_files

CleanupOrphanedFiles ==
    /\ \E dry_run \in BOOLEAN :
          /\ wav' = IF dry_run THEN wav ELSE wav \ FilesToRemove(ManagedLocation)
          /\ api' = [call |-> "cleanup_orphaned_files",
                     dry_run |-> dry_run,
                     files_to_remove |-> FilesToRemove(ManagedLocation),
                     removed_count |-> IF dry_run THEN 0
                                       ELSE Cardinality(FilesToRemove(ManagedLocation))]
    /\ api' # api
    /\ UNCHANGED <<orchestratorVars, writers, dirs, ledger>>

ManagerInit ==
    /\ request = DirectRequest("synthesize")
    /\ items = <<>>
    /\ configs = <<>>
    /\ op = "synthesize"
    /\ coe = TRUE
    /\ sched = <<>>
    /\ pc = "idle"
    /\ pos = 1
    /\ results = <<>>
    /\ errors = <<>>
    /\ calls = <<>>
    /\ ret = "none"
    /\ interrupted = FALSE
    /\ runNo = 0
    /\ faults = 0
    /\ dirs = {}
    /\ wav = {}
    /\ ledger = [l \in Locations |-> <<>>]
    /\ wavAtStart = {}
    /\ ledgerAtStart = [l \in Locations |-> 0]
    /\ NoDirectCalls

ManagerNext ==
    \/ EnsureLocation
    \/ StoreAudio
    \/ \E w \in Writers : WriterCounts(w)
    \/ \E w \in Writers : WriterAppends(w)
    \/ Audit
    \/ CleanupOrphanedFiles

ManagerSpec == ManagerInit /\ [][ManagerNext]_vars


(* --------------------------- TextFileLoader ---------------------------- *)
\* the lines a text file may hold, without their line endings: a plain
\* text, an empty line, a line of spaces, texts with ids, a padded text
LinePool ==
    { <<"a">>, <<>>, <<" ">>, <<"1", "\t", "a">>, <<"2", "\t", " ", "b">>,
      <<" ", "b", " ">> }
SourceFiles == UNION {[1..n -> LinePool] : n \in 0..MaxLines}

\* str(line_num)
Digits == <<"1", "2", "3", "4", "5", "6", "7", "8", "9">>
Str(n) == <<Digits[n]>>

\* text.split('\t', 1): the parts before and after the first tab
FirstTab(t) == CHOOSE k \in 1..Len(t) : t[k] = "\t" /\ \A j \in 1..(k - 1) : t[j] # "\t"
SplitTab(t) ==
    <<SubSeq(t, 1, FirstTab(t) - 1), SubSeq(t, FirstTab(t) + 1, Len(t))>>

\* the body of the loop of TextFileLoader.load for one line: the items it
\* appends to text_items
LoadLine(line_num, text) ==
    IF IsBlank(text) THEN <<>>
    ELSE IF "\t" \in Range(text)
         THEN <<[id |-> Strip(SplitTab(text)[1]), text |-> Strip(SplitTab(text)[2])]>>
         ELSE <<[id |-> Str(line_num), text |-> Strip(text)]>>

\* `with open(source_path, 'r', ...) as f:` on an existing file
OpenSource ==
    /\ api = NoCall
    /\ \E file \in SourceFiles :
          api' = [call |-> "load", source |-> file, line_num |-> 0,
                  text_items |-> <<>>, returned |-> FALSE]
    /\ UNCHANGED <<orchestratorVars, writers, fsVars>>

\* one turn of `for line_num, line in enumerate(f, 1):`
ReadLine ==
    /\ api.call = "load"
    /\ api.line_num < Len(api.source)
    /\ api' = [api EXCEPT
                 !.line_num = @ + 1,
                 !.text_items = @ \o LoadLine(api.line_num + 1,
                                              api.source[api.line_num + 1])]
    /\ UNCHANGED <<orchestratorVars, writers, fsVars>>

\* `return text_items`
ReturnItems ==
    /\ api.call = "load"
    /\ api.line_num = Len(api.source)
    /\ ~api.returned
    /\ api' = [api EXCEPT !.returned = TRUE]
    /\ UNCHANGED <<orchestratorVars, writers, fsVars>>

LoaderInit == ManagerInit
LoaderNext == OpenSource \/ ReadLine \/ ReturnItems
LoaderSpec == LoaderInit /\ [][LoaderNext]_vars


(* ------------------------------ claims --------------------------------- *)
Items == 1..Len(items)
Configs == 1..Len(configs)
NonBlankPairs ==
    {p \in Items \X Configs : Strip(Text(p[1])) # <<>>}
BlankItems == {i \in Items : Strip(Text(i)) = <<>>}

\* the loop steps the run has begun, in order
StepsBegun == SubSeq(sched, 1, pos - 1)
AttemptsBegun == SelectSeq(StepsBegun, LAMBDA st : st.kind = "attempt")
ResultsFor(i, c) == Count(results, LAMBDA r : r.i = i /\ r.c = c)
CallsFor(i, c) == Count(calls, LAMBDA p : p = <<i, c>>)

\* C1: every processed pair with a non-blank text contributes exactly one
\* outcome (success, duplicate skip or failure) to the summary's results.
C1_ExactlyOneOutcome ==
    (pc \in {"loop", "done"} /\ ~interrupted) =>
        \A k \in 1..Len(AttemptsBegun) :
            ResultsFor(AttemptsBegun[k].i, AttemptsBegun[k].c) = 1

\* C2: a run that ends without interruption returns
\* successful + failed = number of attempts made, failed being the number of
\* error strings.
C2_SuccessPlusFailed ==
    (pc = "done" /\ ~interrupted) =>
        Summary.successful_generations + Summary.failed_generations
            = Len(AttemptsBegun)

\* every non-blank pair has its audio file on disk when the run starts
Populated == \A p \in NonBlankPairs : AudioPath(p[1], p[2]) \in wavAtStart

\* C3: a second run over the tree a first run populated calls the capability
\* zero times, creates no wav file, and reports every non-blank pair as a
\* success with skipped_duplicate.
C3_Idempotence ==
    (runNo >= 2 /\ Populated) =>
        /\ calls = <<>>
        /\ wav = wavAtStart
        /\ \A k \in 1..Len(results) :
              results[k].success /\ results[k].skipped_duplicate
        /\ (pc = "done" /\ ~interrupted) =>
              \A p \in NonBlankPairs : ResultsFor(p[1], p[2]) = 1

C3_Witness ==
    /\ runNo = 2
    /\ pc = "done"
    /\ ~interrupted
    /\ Populated
    /\ Len(results) >= 2

\* C4: with continue_on_error false the first failed attempt ends the run: no
\* later step of the iteration order is begun, so no later pair reaches the
\* capability.
C4_StopOnFailure ==
    (pc # "idle" /\ ~coe /\ errors # <<>>) =>
        /\ pc = "done"
        /\ Cardinality({k \in 1..Len(errors) :
                          errors[k].kind \in {"item", "provider"}}) = 1
        /\ \A k \in pos..Len(sched) :
              sched[k].kind = "attempt" =>
                  /\ CallsFor(sched[k].i, sched[k].c) = 0
                  /\ ResultsFor(sched[k].i, sched[k].c) = 0

C4_Witness ==
    /\ pc = "done"
    /\ ~coe
    /\ errors # <<>>
    /\ calls # <<>>
    /\ \E k \in pos..Len(sched) : sched[k].kind = "attempt"

\* C5: a blank text item never reaches the capability, appears in no outcome
\* and no error, and leaves no directory, ledger file, ledger row or audio
\* file behind.
C5_BlankItemsIgnored ==
    LET blank == BlankItems
    IN  /\ \A k \in 1..Len(calls) : calls[k][1] \notin blank
        /\ \A k \in 1..Len(results) : results[k].i \notin blank
        /\ \A k \in 1..Len(errors) : errors[k].i \notin blank
        /\ \A f \in wav : f.name[1] \notin blank
        /\ \A l \in Locations : \A k \in 1..Len(ledger[l]) :
              ledger[l][k].kind = "row" => ledger[l][k].text_id \notin blank
        /\ (blank = Items) =>
              /\ dirs = {}
              /\ \A l \in Locations : ledger[l] = <<>>
              /\ Summary.successful_generations = 0

C5_Witness ==
    /\ pc = "done"
    /\ ~interrupted
    /\ BlankItems # {}
    /\ results # <<>>
    /\ \E k \in 1..Len(StepsBegun) : StepsBegun[k].kind = "skip"


Before(a, b) == a.i < b.i \/ (a.i = b.i /\ a.c < b.c)
InInputOrder(seq) ==
    \A x \in 1..Len(seq) : \A y \in (x + 1)..Len(seq) : Before(seq[x], seq[y])

\* the data rows this run appended to a ledger
NewRows(l) ==
    DataRows(SubSeq(ledger[l], ledgerAtStart[l] + 1, Len(ledger[l])))
RowsInInputOrder ==
    \A l \in Locations :
        LET rows == NewRows(l)
        IN  \A x \in 1..Len(rows) : \A y \in (x + 1)..Len(rows) :
                rows[x].text_id <= rows[y].text_id

OutputInInputOrder ==
    /\ LET begun == AttemptsBegun IN InInputOrder(begun)
    /\ InInputOrder(results)
    /\ RowsInInputOrder

\* C6 as stated: in every run, synthesize or clone, attempts, outcomes and
\* ledger rows follow the input order with items outermost and
\* configurations innermost.
C6_InputOrderAnyRun == pc # "idle" => OutputInInputOrder

RegisteredProviders ==
    {configs[c].provider : c \in {d \in Configs : configs[d].provider \in Registered}}

\* a clone run whose registered configurations name one provider, that
\* provider being iterated items-first
CloneItemsOutermost ==
    /\ Cardinality(RegisteredProviders) <= 1
    /\ \A c \in Configs :
          configs[c].provider \in SeleniumProviders =>
              Cardinality({d \in Configs : configs[d].provider = configs[c].provider}) = 1

\* C6 amended: attempts, outcomes and ledger rows follow the input order
\* (items outermost, configurations innermost) in every synthesize run, and
\* in a clone run when the registered configurations name a single provider
\* that is not is_selenium or has one configuration.
C6_InputOrder ==
    (pc # "idle" /\ (op = "synthesize" \/ CloneItemsOutermost)) => OutputInInputOrder

C6_Witness ==
    /\ pc = "done"
    /\ op = "synthesize"
    /\ Len(results) = 4
    /\ \E l \in Locations : Len(NewRows(l)) >= 2

\* C7: in a ledger that create_output_directory initialised, the k-th data
\* row carries utt_id k.
C7_RowNumbering ==
    \A l \in Locations :
        (ledger[l] # <<>> /\ Head(ledger[l]).kind = "header") =>
            \A k \in 1..Len(DataRows(ledger[l])) : DataRows(ledger[l])[k].utt_id = k

\* C8: whatever step is taken, the earlier content of every ledger file is a
\* prefix of its later content.
C8_AppendOnly ==
    [][\A l \in Locations : IsPrefix(ledger[l], ledger'[l])]_vars

C8_Witness ==
    \E l \in Locations :
        /\ runNo = 2
        /\ ledgerAtStart[l] >= 2
        /\ Len(ledger[l]) > ledgerAtStart[l]

\* C9: an attempt that finds its audio file on disk appends a success
\* outcome with skipped_duplicate and duration 0 and does not call the
\* capability.
C9_DuplicateSkip ==
    [][(/\ pc = "loop"
        /\ pos <= Len(sched)
        /\ Step.kind = "attempt"
        /\ AudioPath(Step.i, Step.c) \in wav
        /\ ~interrupted')
       => (/\ results' = Append(results,
                 [i |-> Step.i, c |-> Step.c, success |-> TRUE,
                  skipped_duplicate |-> TRUE, duration |-> 0])
           /\ calls' = calls
           /\ errors' = errors
           /\ wav' = wav)]_vars

C9_Witness ==
    /\ op = "clone"
    /\ \E k \in 1..Len(results) : results[k].skipped_duplicate
    /\ \E k \in 1..Len(results) : ~results[k].skipped_duplicate

\* C10: within one run the capability is called at most once for each
\* (item, configuration) pair, whether or not the call failed.
C10_NoRetry ==
    \A p \in Items \X Configs : CallsFor(p[1], p[2]) <= 1

C10_Witness ==
    /\ pc = "done"
    /\ \E k \in 1..Len(errors) :
          /\ errors[k].kind = "item"
          /\ CallsFor(errors[k].i, errors[k].c) = 1
    /\ results # <<>>

ErrorsFor(i, c) == Count(errors, LAMBDA e : e.kind = "item" /\ e.i = i /\ e.c = c)
SkipsFor(i, c) ==
    Count(results, LAMBDA r : r.i = i /\ r.c = c /\ r.skipped_duplicate)
UnregisteredConfigs == {c \in Configs : configs[c].provider \notin Registered}

\* C11: in an uninterrupted run with continue_on_error true, every non-blank
\* item is attempted for every configuration of a registered backend
\* (capability called or duplicate skipped), and for every configuration it
\* is accounted for by a success outcome or by an error string naming it.
C11_NoSilentDrop ==
    (pc = "done" /\ ~interrupted /\ coe /\ op \in Operations) =>
        \A p \in NonBlankPairs :
            /\ p[2] \notin UnregisteredConfigs =>
                  CallsFor(p[1], p[2]) + SkipsFor(p[1], p[2]) >= 1
            /\ ResultsFor(p[1], p[2]) + ErrorsFor(p[1], p[2]) >= 1

\* C13: the step that interrupts a run ends it, leaves outcomes and error
\* strings as they were, so that failed does not grow, and nothing is added
\* to them afterwards within that run.
C13_GracefulInterruption ==
    [][/\ (~interrupted /\ interrupted') =>
            /\ pc' = "done"
            /\ results' = results
            /\ errors' = errors
            /\ Summary'.failed_generations = Summary.failed_generations
       /\ (interrupted /\ runNo' = runNo) =>
            /\ results' = results
            /\ errors' = errors
            /\ calls' = calls]_vars

C13_Witness ==
    /\ interrupted
    /\ pc = "done"
    /\ results # <<>>
    /\ errors # <<>>
    /\ pos <= Len(sched)

\* C16: for a configuration naming an unregistered backend, every non-blank
\* item leaves one error string of its own, the capability is not called,
\* and total_texts is the number of input items.
C16_UnregisteredBackend ==
    (pc = "done" /\ ~interrupted /\ coe /\ op \in Operations) =>
        /\ \A p \in NonBlankPairs :
              p[2] \in UnregisteredConfigs =>
                  /\ ErrorsFor(p[1], p[2]) = 1
                  /\ CallsFor(p[1], p[2]) = 0
        /\ Summary.total_texts = Len(items)

\* C17: when a run has ended, the audio file of every success outcome of
\* its summary is on disk, under the directory of its configuration.
C17_AudioExists ==
    pc = "done" =>
        \A k \in 1..Len(results) :
            results[k].success =>
                /\ AudioPath(results[k].i, results[k].c) \in wav
                /\ AudioPath(results[k].i, results[k].c).loc \in Locations

Running == pc \in {"loop", "calling", "returned"}

\* C12: under LiveSpec a run that has begun always reaches the return of its
\* summary, and an exception reaches the caller only from the checks made
\* before the first item.
C12_Terminates ==
    /\ [](pc = "raised" => (runNo = 0 /\ calls = <<>> /\ errors = <<>>))
    /\ Running ~> (pc = "done")

C12_Witness ==
    /\ pc = "done"
    /\ ~coe
    /\ errors # <<>>
    /\ calls # <<>>
    /\ pos <= Len(sched)
    /\ request.entry = "generate"

NothingDone ==
    /\ calls = <<>>
    /\ results = <<>>
    /\ errors = <<>>
    /\ dirs = {}
    /\ wav = {}
    /\ \A l \in Locations : ledger[l] = <<>>

\* the call asks for an operation that is neither synthesize nor clone
InvalidOperation ==
    request.entry = "generate" /\ Lower(request.tts_type) \notin Operations
\* the call asks for a clone without a reference audio file on disk
CloneWithoutReference ==
    /\ \/ request.entry = "clone"
       \/ request.entry = "generate" /\ Lower(request.tts_type) = "clone"
    /\ request.reference_audio # "exists"

\* C14: a call with an invalid operation, or a clone call whose
\* reference_audio is missing or not on disk, ends by raising, with no
\* capability call, no directory, no ledger and no summary.
C14_OperationValidation ==
    ((InvalidOperation \/ CloneWithoutReference) /\ pc # "idle") =>
        (pc = "raised" /\ NothingDone)

\* C15: a call of any batch entry point with an empty list of text items
\* ends by raising, and returns no summary.
C15_EmptyInputRaises ==
    (items = <<>> /\ pc # "idle") => (pc = "raised" /\ NothingDone)

\* C18: when the capability call succeeded and the ledger append failed
\* (the file is left as it was), the item is still appended as a success
\* outcome, no error string is added and the loop goes on.
C18_LedgerFailureTolerated ==
    [][(/\ pc = "returned"
        /\ ret = "ok"
        /\ ~interrupted'
        /\ ledger' = ledger)
       => (/\ results' = Append(results,
                 [i |-> Step.i, c |-> Step.c, success |-> TRUE,
                  skipped_duplicate |-> FALSE,
                  duration |-> ReportedDuration(Step.i)])
           /\ errors' = errors
           /\ pc' = "loop")]_vars

\* an audio file reported as a success of this run, with no ledger row
C18_Witness ==
    /\ runNo = 1
    /\ pc = "done"
    /\ ~interrupted
    /\ errors = <<>>
    /\ \E k \in 1..Len(results) :
          LET path == AudioPath(results[k].i, results[k].c)
              rows == DataRows(ledger[path.loc])
          IN  /\ ~results[k].skipped_duplicate
              /\ path \in wav
              /\ \A x \in 1..Len(rows) : rows[x].audio_path # path

PairsOf(seq) == [k \in 1..Len(seq) |-> <<seq[k].i, seq[k].c>>]
\* the outcomes and the errors a run without disturbance leaves when it
\* takes the loop steps sc
OutcomesOf(sc) ==
    PairsOf(SelectSeq(sc, LAMBDA st :
        st.kind = "attempt" /\ configs[st.c].provider \in Registered))
ErrorsOf(sc) ==
    PairsOf(SelectSeq(sc, LAMBDA st :
        st.kind = "missing"
        \/ (st.kind = "attempt" /\ configs[st.c].provider \notin Registered)))

\* C19: what a run produced is what it would have produced with any other
\* batch_size: the same outcomes and the same errors, in the same order.
C19_BatchSizeIrrelevant ==
    (pc = "done" /\ runNo = 1 /\ faults = 0 /\ coe) =>
        \A b \in BatchSizes :
            /\ PairsOf(results) = OutcomesOf(ScheduleOf(op, items, configs, b))
            /\ PairsOf(errors) = ErrorsOf(ScheduleOf(op, items, configs, b))

\* C20: create_output_directory applied twice is create_output_directory
\* applied once, and the step of an attempt that calls it leaves the wav
\* directory in place, a ledger that was missing with the header only, and a
\* ledger that existed, with or without rows, exactly as it was.
C20_EnsureLocationIdempotent ==
    [][/\ \A l \in Locations :
            CreateOutputDirectory(CreateOutputDirectory(ledger, l), l)
                = CreateOutputDirectory(ledger, l)
       /\ (pc = "loop" /\ pc' = "calling") =>
            LET l == Location(configs[Step.c])
            IN  /\ dirs' = dirs \cup {l}
                /\ ledger'[l] = IF ledger[l] = <<>> THEN <<HeaderLine>> ELSE ledger[l]
                /\ \A m \in Locations \ {l} : ledger'[m] = ledger[m]
                /\ wav' = wav]_vars

C20_Witness ==
    /\ runNo = 2
    /\ pc = "calling"
    /\ Location(configs[Step.c]) \in dirs
    /\ ledgerAtStart[Location(configs[Step.c])] >= 2

\* C21: a ledger first created during a clone run carries the clone header,
\* one first created during a synthesize run the synthesize header, and
\* every row has the columns of the header of its ledger.
C21_HeaderMatchesOperation ==
    \A l \in Locations :
        ledger[l] # <<>> =>
            /\ (runNo = 1 /\ Head(ledger[l]).kind = "header") =>
                  ColumnsOf(Head(ledger[l]))
                      = IF op = "clone" THEN CloneColumns ELSE SynthesizeColumns
            /\ \A k \in 1..Len(DataRows(ledger[l])) :
                  EntryColumns(DataRows(ledger[l])[k]) = ColumnsOf(Head(ledger[l]))

\* C30: a pair is reported as a skipped duplicate only after an attempt
\* for the same output path succeeded: when the file did not exist as the
\* run began, an earlier outcome of this run is that success. A failed
\* attempt for the path, whatever it left on disk, is followed by a fresh
\* attempt instead.
C30_SkipOnlyAfterSuccess ==
    \A k \in 1..Len(results) :
        (/\ results[k].skipped_duplicate
         /\ AudioPath(results[k].i, results[k].c) \notin wavAtStart)
        => \E j \in 1..(k - 1) :
              /\ AudioPath(results[j].i, results[j].c)
                    = AudioPath(results[k].i, results[k].c)
              /\ ~results[j].skipped_duplicate

\* C22: create_output_directory raises whenever the directory cannot be
\* created or the ledger header cannot be written, and only then.
C22_EnsureLocationRaises ==
    api.call = "create_output_directory" =>
        (api.raised <=> api.fault # "ok")

\* the audio files of the managed location that no data row of its ledger
\* names in audio_path
Unreferenced ==
    {f \in AudioFiles(ManagedLocation) :
        \A k \in 1..Len(DataRows(ledger[ManagedLocation])) :
            DataRows(ledger[ManagedLocation])[k].audio_path # f}

\* C23: for a ledger that begins with its header, validate_structure
\* reports as orphaned exactly the audio files that no ledger row names,
\* and as total_entries the number of data rows.
C23_AuditReportsOrphans ==
    (/\ api.call = "validate_structure"
     /\ ledger[ManagedLocation] # <<>>
     /\ Head(ledger[ManagedLocation]).kind = "header") =>
        /\ api.issues.orphaned_files = Unreferenced
        /\ api.issues.total_entries = Len(DataRows(ledger[ManagedLocation]))

\* C25: whatever the interleaving of two callers of add_metadata_entry,
\* an append keeps every line the ledger held and adds one row, so both
\* rows are present, even when both received the same utt_id.
C25_BothRowsPresent ==
    [][\A w \in Writers :
          (/\ writers[w].pc = "counted"
           /\ writers'[w].pc = "idle"
           /\ ManagedLocation \in dirs)
          => /\ IsPrefix(ledger[ManagedLocation], ledger'[ManagedLocation])
             /\ Len(DataRows(ledger'[ManagedLocation]))
                  = Len(DataRows(ledger[ManagedLocation])) + 1]_vars

\* two callers counted the same lines of a ledger with a header and both
\* appended: two rows with one utt_id
C25_Witness ==
    LET rows == DataRows(ledger[ManagedLocation])
    IN  /\ ledger[ManagedLocation] # <<>>
        /\ Head(ledger[ManagedLocation]).kind = "header"
        /\ Len(rows) = 2
        /\ rows[1].utt_id = rows[2].utt_id
        /\ \A w \in Writers : writers[w].pc = "idle"

\* C28: cleanup_orphaned_files lists, and with dry_run=False removes, only
\* audio files that no ledger row names.
C28_CleanupKeepsReferenced ==
    api.call = "cleanup_orphaned_files" =>
        \A f \in api.files_to_remove :
            \A k \in 1..Len(DataRows(ledger[ManagedLocation])) :
                DataRows(ledger[ManagedLocation])[k].audio_path # f

DistinctUttIds(file) ==
    \A j, k \in 1..Len(DataRows(file)) :
        j # k => DataRows(file)[j].utt_id # DataRows(file)[k].utt_id

\* C29: when one caller appends to the ledger and no other caller ever
\* called, the row carries the utt_id get_next_utt_id gave
\* before the call and the utt_ids of the ledger stay pairwise distinct,
\* the ledger having a header or not.
C29_DistinctUttIds ==
    [][(/\ writers[1].pc = "counted"
        /\ writers'[1].pc = "idle"
        /\ writers[2] = IdleWriter
        /\ ManagedLocation \in dirs
        /\ DistinctUttIds(ledger[ManagedLocation]))
       => /\ DistinctUttIds(ledger'[ManagedLocation])
          /\ DataRows(ledger'[ManagedLocation])
                 [Len(DataRows(ledger'[ManagedLocation]))].utt_id
               = GetNextUttId(ledger[ManagedLocation])]_vars

\* the numbers of the lines of a file that are not blank, in file order
NonBlankLines(file) ==
    SelectSeq([k \in 1..Len(file) |-> k], LAMBDA k : ~IsBlank(file[k]))

\* C24: load returns one item per non-blank line, in file order, whose id
\* is the 1-based number of the line, for plain lines and lines of the
\* form id<TAB>text alike, so that no two items share an id.
C24_IdsAreLineNumbers ==
    (api.call = "load" /\ api.returned) =>
        /\ Len(api.text_items) = Len(NonBlankLines(api.source))
        /\ \A j \in 1..Len(api.text_items) :
              api.text_items[j].id = Str(NonBlankLines(api.source)[j])
        /\ \A j, k \in 1..Len(api.text_items) :
              j # k => api.text_items[j].id # api.text_items[k].id

\* the data rows of all ledgers
RowCount(led) ==
    LET RECURSIVE Sum(_)
        Sum(ls) == IF ls = {} THEN 0
                   ELSE LET l == CHOOSE x \in ls : TRUE
                        IN  Len(DataRows(led[l])) + Sum(ls \ {l})
    IN  Sum(Locations)

\* C26: every success outcome a run records, generated or skipped as a
\* duplicate, comes with exactly one appended ledger row, in synthesize and
\* in clone runs alike (an append that failed aside).
C26_OneRowPerSuccess ==
    [][(Len(results') = Len(results) + 1 /\ faults' = faults)
          => RowCount(ledger') = RowCount(ledger) + 1]_vars

\* C27: a run is interrupted only between items, and every capability call that
\* returned success is followed by its success outcome.
C27_InterruptBetweenItems ==
    [][/\ (interrupted' /\ ~interrupted) => pc = "loop"
       /\ (pc = "returned" /\ ret = "ok") => Len(results') = Len(results) + 1]_vars

====
